---------------------------- MODULE Spec2Model ----------------------------
(***************************************************************************)
(* Model of pyo3_stubgen/generate.py: the text-generation engine that      *)
(* turns a module's native callables and classes into `.pyi` stub text.    *)
(*                                                                         *)
(* A Python str is modelled as a sequence of one-character strings, so     *)
(* that strip, split, join, textwrap.indent and the lexicographic order    *)
(* of sorted() are computed character by character, as the code does.      *)
(* None is the one-element sequence <<"<None>">>, which is no str.          *)
(***************************************************************************)
EXTENDS Naturals, Sequences, FiniteSets

VARIABLES pc, fn, sig, obj, module, ret, definitions, contents

vars == <<pc, fn, sig, obj, module, ret, definitions, contents>>

(***************************************************************************)
(* Bounds of the model.                                                    *)
(***************************************************************************)
\* most parameter clauses in an enumerated signature
MaxArgs == 2
\* most members enumerated on a class
MaxMembers == 2
\* most attributes enumerated on a module
MaxAttrs == 2

(***************************************************************************)
(* Python values.                                                          *)
(***************************************************************************)
None == <<"<None>">>

\* truthiness of an `str | None` value: None and "" are falsy
Truthy(s) == s # None /\ s # <<>>

\* a returned value / a raised exception
Return(v) == [ok |-> TRUE, value |-> v, exc |-> "", msg |-> <<>>]

Raise(e, m) == [ok |-> FALSE, value |-> <<>>, exc |-> e, msg |-> m]

NoResult == [ok |-> FALSE, value |-> <<>>, exc |-> "", msg |-> <<>>]

(***************************************************************************)
(* str methods.                                                            *)
(***************************************************************************)
StartsWith(s, p) == Len(s) >= Len(p) /\ SubSeq(s, 1, Len(p)) = p

\* "sub in s"
Contains(s, sub) == \E i \in 1..(Len(s) + 1) : StartsWith(SubSeq(s, i, Len(s)), sub)

\* index of the first occurrence of sep in s, 0 when there is none
Find(s, sep) ==
  IF Contains(s, sep)
  THEN CHOOSE i \in 1..(Len(s) + 1) :
         /\ StartsWith(SubSeq(s, i, Len(s)), sep)
         /\ \A j \in 1..(i - 1) : ~StartsWith(SubSeq(s, j, Len(s)), sep)
  ELSE 0

RECURSIVE Split(_, _)
\* s.split(sep), sep non-empty: "".split(sep) is [""]
Split(s, sep) ==
  IF Find(s, sep) = 0
  THEN <<s>>
  ELSE <<SubSeq(s, 1, Find(s, sep) - 1)>>
         \o Split(SubSeq(s, Find(s, sep) + Len(sep), Len(s)), sep)

RECURSIVE Join(_, _)
\* sep.join(parts)
Join(parts, sep) ==
  IF parts = <<>> THEN <<>>
  ELSE IF Len(parts) = 1 THEN parts[1]
  ELSE parts[1] \o sep \o Join(Tail(parts), sep)

RECURSIVE LStrip(_, _)
LStrip(s, chars) ==
  IF s # <<>> /\ s[1] \in chars THEN LStrip(Tail(s), chars) ELSE s

RECURSIVE RStrip(_, _)
RStrip(s, chars) ==
  IF s # <<>> /\ s[Len(s)] \in chars THEN RStrip(SubSeq(s, 1, Len(s) - 1), chars) ELSE s

\* s.strip(chars)
Strip(s, chars) == RStrip(LStrip(s, chars), chars)

Whitespace == {" ", "\n", "\t"}

\* s.strip()
StripWs(s) == Strip(s, Whitespace)

RECURSIVE SplitLinesKeepEnds(_)
\* s.splitlines(True) for text whose only line break is "\n"
SplitLinesKeepEnds(s) ==
  IF s = <<>> THEN <<>>
  ELSE IF Find(s, <<"\n">>) = 0 THEN <<s>>
  ELSE <<SubSeq(s, 1, Find(s, <<"\n">>))>>
         \o SplitLinesKeepEnds(SubSeq(s, Find(s, <<"\n">>) + 1, Len(s)))

RECURSIVE Concat(_)
\* "".join(parts)
Concat(parts) == IF parts = <<>> THEN <<>> ELSE parts[1] \o Concat(Tail(parts))

\* textwrap.indent(text, prefix): the prefix goes before every line that
\* does not consist solely of whitespace
Indent(text, prefix) ==
  LET lines == SplitLinesKeepEnds(text)
  IN  Concat([i \in 1..Len(lines) |->
                IF StripWs(lines[i]) # <<>> THEN prefix \o lines[i] ELSE lines[i]])

(***************************************************************************)
(* parse_signature                                                         *)
(***************************************************************************)
SELF_MARKER == <<"$", "s", "e", "l", "f">>

SELF_NAME == <<"s", "e", "l", "f">>

\* ParseArg without the `$self` rewrite of lines 35-36
ParseArg_NoRename(argstr) ==
  LET spl    == Split(argstr, <<"=">>)
      argdef == IF Len(spl) = 2 THEN spl[2] ELSE None
  IN  spl[1] \o (IF Truthy(argdef) THEN <<" ", "=", " ">> \o argdef ELSE <<>>)

\* one pass of the loop body: the output clause for one argstr
ParseArg(argstr) ==
  LET spl     == Split(argstr, <<"=">>)
      argname == IF spl[1] = SELF_MARKER THEN SELF_NAME ELSE spl[1]
      argdef  == IF Len(spl) = 2 THEN spl[2] ELSE None
      argtype == None
  IN  argname
        \o (IF Truthy(argtype) THEN <<":", " ">> \o argtype ELSE <<>>)
        \o (IF Truthy(argdef) THEN <<" ", "=", " ">> \o argdef ELSE <<>>)

\* args = [x.strip() for x in sig.strip(" ()").split(", ")]
SignatureArgs(s) ==
  LET parts == Split(Strip(s, {" ", "(", ")"}), <<",", " ">>)
  IN  [i \in 1..Len(parts) |-> StripWs(parts[i])]

parse_signature(s, docstr) ==
  IF s = None
  THEN Raise("AttributeError", <<"'NoneType' object has no attribute 'strip'">>)
  ELSE LET args    == SignatureArgs(s)
           newargs == [i \in 1..Len(args) |-> ParseArg(args[i])]
       IN  Return(<<"(">> \o Join(newargs, <<",", " ">>) \o <<")">>)

(***************************************************************************)
(* Runtime types.  In CPython types.BuiltinMethodType is the same type     *)
(* object as types.BuiltinFunctionType.                                    *)
(***************************************************************************)
BuiltinFunctionType == "builtin_function_or_method"

MethodDescriptorType == "method_descriptor"

BuiltinMethodType == "builtin_function_or_method"

TypeType == "type"

FUNCTION_TYPES == {BuiltinFunctionType, MethodDescriptorType, BuiltinMethodType}

\* SUPPORTED_TYPES that also lets Python functions through the filter
SUPPORTED_TYPES_WithPythonFunctions == FUNCTION_TYPES \cup {TypeType, "function"}

SUPPORTED_TYPES == FUNCTION_TYPES \cup {TypeType}

\* the attribute lookup function.__text_signature__ finds no attribute
Missing == <<"<missing>">>

\* hasattr(function, "__text_signature__")
HasTextSignature(function) == function.text_signature # Missing

(***************************************************************************)
(* gen_function_entry                                                      *)
(***************************************************************************)
INDENT == <<" ", " ", " ", " ">>

QUOTES == <<"\"", "\"", "\"">>

PLACEHOLDER == INDENT \o <<".", ".", ".">>

NL == <<"\n">>

\* DocBlock without the line-break test of lines 61 and 94
DocBlock_AlwaysInline(doc) == INDENT \o QUOTES \o doc \o QUOTES

\* the documentation part shared by lines 60-64 and 93-97
DocBlock(doc) ==
  IF Contains(doc, NL)
  THEN INDENT \o QUOTES \o NL \o Indent(doc, INDENT) \o NL \o INDENT \o QUOTES
  ELSE INDENT \o QUOTES \o doc \o QUOTES

FunctionDoc(function) ==
  IF Truthy(function.doc) THEN DocBlock(function.doc) ELSE PLACEHOLDER

\* line 70, or the exception line 68 raised
FunctionEntry(function, doc, signature) ==
  IF ~signature.ok
  THEN signature
  ELSE Return(<<"d", "e", "f", " ">> \o function.name \o signature.value
                \o <<":">> \o NL \o doc \o NL)

\* line 68: the attribute lookup, then the call
FunctionSignature(function) ==
  IF function.text_signature = Missing
  THEN Raise("AttributeError", <<"__text_signature__">>)
  ELSE parse_signature(function.text_signature, function.doc)

gen_function_entry(function) ==
  FunctionEntry(function, FunctionDoc(function), FunctionSignature(function))

(***************************************************************************)
(* gen_class_entry                                                         *)
(***************************************************************************)
DUNDER == <<"_", "_">>

\* IsMethod without the double-underscore test of line 90
IsMethod_KeepsDunder(function) ==
  /\ function.type \in {MethodDescriptorType, BuiltinMethodType}
  /\ HasTextSignature(function)

\* the condition of the comprehension at lines 88-90
IsMethod(function) ==
  /\ function.type \in {MethodDescriptorType, BuiltinMethodType}
  /\ HasTextSignature(function)
  /\ ~StartsWith(function.name, DUNDER)

RECURSIVE SelectSeq2(_, _)
\* [x for x in s if x in keep], keep a set of indices: the kept items in order
SelectSeq2(s, keep) ==
  IF s = <<>> THEN <<>>
  ELSE SelectSeq2(SubSeq(s, 1, Len(s) - 1), keep)
         \o (IF Len(s) \in keep THEN <<s[Len(s)]>> ELSE <<>>)

\* the first raised exception among results, in evaluation order
FirstError(results) ==
  results[CHOOSE i \in 1..Len(results) :
            ~results[i].ok /\ \A j \in 1..(i - 1) : results[j].ok]

AllOk(results) == \A i \in 1..Len(results) : results[i].ok

\* ClassDoc without the `elif not methods` test of line 98
ClassDoc_AlwaysPlaceholder(cls, methods) ==
  IF Truthy(cls.doc) THEN DocBlock(cls.doc) ELSE PLACEHOLDER

ClassDoc(cls, methods) ==
  IF Truthy(cls.doc) THEN DocBlock(cls.doc)
  ELSE IF methods = <<>> THEN PLACEHOLDER
  ELSE <<>>

\* the members the comprehension at lines 85-91 keeps, in dir() order
Methods(dir_contents) ==
  SelectSeq2(dir_contents, {i \in 1..Len(dir_contents) : IsMethod(dir_contents[i])})

\* line 86, for every kept member
MethodEntries(kept) == [i \in 1..Len(kept) |-> gen_function_entry(kept[i])]

IndentAll(entries) == [i \in 1..Len(entries) |-> Indent(entries[i].value, INDENT)]

\* lines 93-103
ClassText(cls, methods) ==
  <<"c", "l", "a", "s", "s", " ">> \o cls.name \o <<":">> \o NL
    \o ClassDoc(cls, methods) \o NL \o Join(methods, NL) \o NL

\* lines 93-103, or the exception a call at line 86 raised
ClassEntry(cls, entries) ==
  IF ~AllOk(entries) THEN FirstError(entries)
  ELSE Return(ClassText(cls, IndentAll(entries)))

gen_class_entry(cls) == ClassEntry(cls, MethodEntries(Methods(cls.members)))

(***************************************************************************)
(* genentry                                                                *)
(***************************************************************************)
\* genentry that takes whatever is no native callable for a class
genentry_ClassFallback(o) ==
  IF o.type \in FUNCTION_TYPES THEN gen_function_entry(o) ELSE gen_class_entry(o)

genentry(o) ==
  IF o.type \in FUNCTION_TYPES THEN gen_function_entry(o)
  ELSE IF o.type = TypeType THEN gen_class_entry(o)
  ELSE Raise("ValueError", <<"Unsupported type ", o.type>>)

(***************************************************************************)
(* sorted() on a list of str: code-point lexicographic order               *)
(***************************************************************************)
\* the characters of the model in code-point order
CodePoints ==
  << "\t", "\n", " ", "\"", "#", "$", "'", "(", ")", "*", ",", ".", "/",
     "0", "1", "2", "3", "4", "5", "6", "7", "8", "9", ":", "<", "=", ">",
     "A", "B", "C", "D", "E", "F", "G", "H", "I", "J", "K", "L", "M", "N",
     "O", "P", "Q", "R", "S", "T", "U", "V", "W", "X", "Y", "Z", "_",
     "a", "b", "c", "d", "e", "f", "g", "h", "i", "j", "k", "l", "m", "n",
     "o", "p", "q", "r", "s", "t", "u", "v", "w", "x", "y", "z" >>

Ord(c) == CHOOSE i \in 1..Len(CodePoints) : CodePoints[i] = c

RECURSIVE StrLess(_, _)
\* a < b on str
StrLess(a, b) ==
  IF b = <<>> THEN FALSE
  ELSE IF a = <<>> THEN TRUE
  ELSE IF a[1] # b[1] THEN Ord(a[1]) < Ord(b[1])
  ELSE StrLess(Tail(a), Tail(b))

RECURSIVE Insert(_, _)
\* x put into the sorted list s, after the items that are not greater
Insert(s, x) ==
  IF s = <<>> THEN <<x>>
  ELSE IF StrLess(x, s[1]) THEN <<x>> \o s
  ELSE <<s[1]>> \o Insert(Tail(s), x)

RECURSIVE Sorted(_)
\* sorted(s): stable
Sorted(s) == IF s = <<>> THEN <<>> ELSE Insert(Sorted(SubSeq(s, 1, Len(s) - 1)), s[Len(s)])

(***************************************************************************)
(* genpyi                                                                  *)
(***************************************************************************)
HEADER ==
  <<"#", " ", "f", "l", "a", "k", "e", "8", ":", " ", "n", "o", "q", "a", ":",
    " ", "P", "Y", "I", "0", "2", "1">>

\* objs filtered at line 143
Supported(objs) == SelectSeq2(objs, {i \in 1..Len(objs) : objs[i].type \in SUPPORTED_TYPES})

\* line 143: an entry, or the exception raised, for every kept object
Entries(kept) == [i \in 1..Len(kept) |-> genentry(kept[i])]

Values(entries) == [i \in 1..Len(entries) |-> entries[i].value]

\* line 144 without sorted()
Contents_Unsorted(defs) == <<HEADER>> \o defs

\* line 144
Contents(defs) == <<HEADER>> \o Sorted(defs)

\* line 145 joining the entries with a blank line
Document_BlankLineJoin(defs, conts) ==
  [result |-> Return(Join(conts, NL \o NL)), definitions |-> defs, contents |-> conts]

\* lines 144-145: the locals and the returned text
Document(defs, conts) ==
  [result |-> Return(Join(conts, NL)), definitions |-> defs, contents |-> conts]

\* lines 143-145, or the exception a call at line 143 raised
Aggregate(entries) ==
  IF ~AllOk(entries)
  THEN [result |-> FirstError(entries), definitions |-> <<>>, contents |-> <<>>]
  ELSE Document(Values(entries), Contents(Values(entries)))

\* the locals of genpyi and what it returns or raises
genpyi(m) == Aggregate(Entries(Supported(m)))

(***************************************************************************)
(* Inputs.                                                                 *)
(***************************************************************************)
\* sequences over S of length at most n
SeqsUpTo(S, n) == UNION {[1..k -> S] : k \in 0..n}

\* parameter clauses: a, $self, b=0, e="=", t=(), p=(1, 2), n=
ArgClauses ==
  { <<"a">>,
    SELF_MARKER,
    <<"b", "=", "0">>,
    <<"e", "=", "\"", "=", "\"">>,
    <<"t", "=", "(", ")">>,
    <<"p", "=", "(", "1", ",", " ", "2", ")">>,
    <<"n", "=">> }

\* "(" clause ", " clause ... ")"
Signature(clauses) == <<"(">> \o Join(clauses, <<",", " ">>) \o <<")">>

Signatures == {Signature(cs) : cs \in SeqsUpTo(ArgClauses, MaxArgs)}

\* a Python object as the generators read it: type(o), o.__name__,
\* o.__text_signature__, o.__doc__ and, for a class, the objects dir() reaches
Object(type, name, text_signature, doc, members) ==
  [type |-> type, name |-> name, text_signature |-> text_signature,
   doc |-> doc, members |-> members]

NoObj == Object("", <<>>, None, None, <<>>)

ADD_DOC ==
  <<"A", "d", "d", " ", "t", "w", "o", " ", "n", "u", "m", "b", "e", "r", "s", ".">>

\* __doc__: absent, empty, one line, two lines, lines with a blank line, an
\* indented line and a trailing line break
Docs ==
  { None,
    <<>>,
    ADD_DOC,
    <<"x", "\n", "y">>,
    <<"x", "\n", "\n", " ", " ", "y", "\n">> }

\* native callables: a compiled function always has the attribute
\* __text_signature__, whose value is None when no signature was recorded
Functions ==
  { Object(ty, <<"a", "d", "d">>, s, d, <<>>) :
      ty \in FUNCTION_TYPES, s \in Signatures \cup {None}, d \in Docs }

\* what dir() reaches on a class
Members ==
  { Object(MethodDescriptorType, <<"g", "e", "t">>,
           <<"(", "$", "s", "e", "l", "f", ",", " ", "a", ")">>, <<"G", "e", "t", ".">>, <<>>),
    Object(BuiltinMethodType, <<"m", "a", "k", "e">>,
           <<"(", "a", ",", " ", "b", "=", "0", ")">>, None, <<>>),
    Object(MethodDescriptorType, <<"_", "_", "r", "e", "d", "u", "c", "e", "_", "_">>,
           <<"(", "$", "s", "e", "l", "f", ")">>, None, <<>>),
    Object(MethodDescriptorType, <<"u", "p", "d", "a", "t", "e">>, None, None, <<>>),
    Object("wrapper_descriptor", <<"_", "_", "i", "n", "i", "t", "_", "_">>,
           <<"(", "$", "s", "e", "l", "f", ",", " ", "a", ")">>, None, <<>>),
    Object("function", <<"h", "e", "l", "p", "e", "r">>, Missing, <<"H", ".">>, <<>>),
    Object("int", <<"s", "i", "z", "e">>, Missing, None, <<>>) }

\* sequences over S of length at most n whose items have different names:
\* dir() lists every name once
Namespaces(S, n) ==
  { s \in SeqsUpTo(S, n) : \A i, j \in 1..Len(s) : s[i].name = s[j].name => i = j }

Classes ==
  { Object(TypeType, <<"K">>, None, d, ms) :
      d \in Docs, ms \in Namespaces(Members, MaxMembers) }

\* objects whose type is neither a native callable's nor `type`: an int, a
\* str, a Python function, a module, a class with a metaclass
OtherObjects ==
  { Object(ty, <<"n">>, Missing, None, <<>>) :
      ty \in {"int", "str", "function", "module", "EnumMeta"} }

\* what dir() reaches on a module
Attributes ==
  { Object(BuiltinFunctionType, <<"a", "d", "d">>,
           <<"(", "a", ",", " ", "b", "=", "0", ")">>, ADD_DOC, <<>>),
    Object(BuiltinFunctionType, <<"b">>, <<"(", ")">>, None, <<>>),
    Object(BuiltinFunctionType, <<"u">>, None, None, <<>>),
    Object(TypeType, <<"c">>, None, None, <<>>),
    Object(TypeType, <<"K">>, None, <<"K", ".">>,
           << Object(MethodDescriptorType, <<"g", "e", "t">>,
                     <<"(", "$", "s", "e", "l", "f", ",", " ", "a", ")">>, None, <<>>) >>),
    Object(TypeType, <<"D">>, None, None,
           << Object(MethodDescriptorType, <<"u", "p", "d", "a", "t", "e">>, None, None, <<>>) >>),
    Object("int", <<"n">>, Missing, None, <<>>),
    Object("function", <<"h">>, Missing, None, <<>>),
    Object("EnumMeta", <<"E">>, None, None, <<>>) }

Modules == Namespaces(Attributes, MaxAttrs)

(***************************************************************************)
(* The calls: one call of one function of the module per run.              *)
(***************************************************************************)
Init ==
  /\ pc = "call"
  /\ ret = NoResult
  /\ definitions = <<>>
  /\ contents = <<>>
  /\ \/ /\ fn = "parse_signature"
        /\ sig \in Signatures
        /\ obj = NoObj
        /\ module = <<>>
     \/ /\ fn = "gen_function_entry"
        /\ sig = <<>>
        /\ obj \in Functions
        /\ module = <<>>
     \/ /\ fn = "gen_class_entry"
        /\ sig = <<>>
        /\ obj \in Classes
        /\ module = <<>>
     \/ /\ fn = "genentry"
        /\ sig = <<>>
        /\ obj \in Functions \cup Classes \cup OtherObjects
        /\ module = <<>>
     \/ /\ fn = "genpyi"
        /\ sig = <<>>
        /\ obj = NoObj
        /\ module \in Modules

ParseSignature ==
  /\ pc = "call"
  /\ fn = "parse_signature"
  /\ ret' = parse_signature(sig, None)
  /\ pc' = "done"
  /\ UNCHANGED <<fn, sig, obj, module, definitions, contents>>

GenFunctionEntry ==
  /\ pc = "call"
  /\ fn = "gen_function_entry"
  /\ ret' = gen_function_entry(obj)
  /\ pc' = "done"
  /\ UNCHANGED <<fn, sig, obj, module, definitions, contents>>

GenClassEntry ==
  /\ pc = "call"
  /\ fn = "gen_class_entry"
  /\ ret' = gen_class_entry(obj)
  /\ pc' = "done"
  /\ UNCHANGED <<fn, sig, obj, module, definitions, contents>>

GenEntry ==
  /\ pc = "call"
  /\ fn = "genentry"
  /\ ret' = genentry(obj)
  /\ pc' = "done"
  /\ UNCHANGED <<fn, sig, obj, module, definitions, contents>>

GenPyi ==
  /\ pc = "call"
  /\ fn = "genpyi"
  /\ \E r \in {genpyi(module)} :
       /\ ret' = r.result
       /\ definitions' = r.definitions
       /\ contents' = r.contents
  /\ pc' = "done"
  /\ UNCHANGED <<fn, sig, obj, module>>

Next ==
  \/ ParseSignature
  \/ GenFunctionEntry
  \/ GenClassEntry
  \/ GenEntry
  \/ GenPyi

Spec == Init /\ [][Next]_vars

(***************************************************************************)
(* Reading the generated text back: the vocabulary of the properties.      *)
(***************************************************************************)
Done(f) == pc = "done" /\ fn = f

\* the lines of a text, without their line breaks
Lines(text) == Split(text, <<"\n">>)

\* a value that is a str: neither None nor a failed attribute lookup
IsStr(v) == v # None /\ v # Missing

\* the characters a parameter name is written with
NameChars ==
  { "$", "*", "/", "_", "0", "1", "2", "3", "4", "5", "6", "7", "8", "9",
    "a", "b", "c", "d", "e", "f", "g", "h", "i", "j", "k", "l", "m", "n",
    "o", "p", "q", "r", "s", "t", "u", "v", "w", "x", "y", "z" }

\* the name a parameter clause begins with
LeadingName(clause) ==
  SubSeq(clause, 1,
         CHOOSE k \in 0..Len(clause) :
           /\ \A i \in 1..k : clause[i] \in NameChars
           /\ k < Len(clause) => clause[k + 1] \notin NameChars)

\* the comma-space-separated clauses between the outer parentheses
ClauseList(text) ==
  IF Len(text) <= 2 THEN <<>> ELSE Split(SubSeq(text, 2, Len(text) - 1), <<",", " ">>)

Renamed(name) == IF name = <<"$", "s", "e", "l", "f">> THEN <<"s", "e", "l", "f">> ELSE name

Parenthesised(text) == text # <<>> /\ text[1] = "(" /\ text[Len(text)] = ")"

(***************************************************************************)
(* C1                                                                      *)
(***************************************************************************)
NativeOrClass == {"builtin_function_or_method", "method_descriptor", "type"}

\* C1: genentry(obj), for an obj whose runtime type is neither one of the
\* native-function-like types nor exactly `type`, raises the unsupported-type
\* error (a ValueError "Unsupported type <type>") that names type(obj); it
\* returns no entry string for such an object.
C1_UnsupportedTypeRaises ==
  (Done("genentry") /\ obj.type \notin NativeOrClass)
    => /\ ~ret.ok
       /\ ret.value = <<>>
       /\ ret.exc = "ValueError"
       /\ ret.msg = <<"Unsupported type ", obj.type>>

C1_Witness ==
  /\ Done("genentry")
  /\ obj.type = "int"
  /\ ret.exc = "ValueError"
  /\ ret.msg = <<"Unsupported type ", "int">>

(***************************************************************************)
(* C2                                                                      *)
(***************************************************************************)
\* C2: for a signature `(c1, ..., cn)` of n >= 0 comma-space-separated
\* clauses, parse_signature returns a parenthesised, comma-space-joined list
\* of exactly n parameters in the input's order, the i-th named as the i-th
\* input clause except that `$self` becomes `self`; `()` gives `()`.
C2_NamesAndOrderPreserved ==
  Done("parse_signature")
    => /\ ret.ok
       /\ Parenthesised(ret.value)
       /\ Len(ClauseList(ret.value)) = Len(ClauseList(sig))
       /\ \A i \in 1..Len(ClauseList(sig)) :
            LeadingName(ClauseList(ret.value)[i]) = Renamed(LeadingName(ClauseList(sig)[i]))
       /\ sig = <<"(", ")">> => ret.value = <<"(", ")">>

C2_Witness ==
  /\ Done("parse_signature")
  /\ sig = <<"(", "$", "s", "e", "l", "f", ",", " ", "b", "=", "0", ")">>
  /\ ret.value = <<"(", "s", "e", "l", "f", ",", " ", "b", " ", "=", " ", "0", ")">>

(***************************************************************************)
(* C3                                                                      *)
(***************************************************************************)
\* the parameter C3 expects for a clause: split on the first `=` only, the
\* name (renamed), then `=` and everything right of it, verbatim
C3_ExpectedParam(clause) ==
  IF Find(clause, <<"=">>) = 0
  THEN Renamed(clause)
  ELSE Renamed(SubSeq(clause, 1, Find(clause, <<"=">>) - 1))
         \o <<"=">> \o SubSeq(clause, Find(clause, <<"=">>) + 1, Len(clause))

\* C3: every clause that contains `=` is split on its first `=` only and is
\* emitted as `name=default`, the default being all the text right of that
\* `=` copied verbatim (defaults containing `=`, `, `, parentheses or nothing
\* included); a clause without `=` is emitted as the bare name.
C3_DefaultsVerbatim ==
  Done("parse_signature")
    => /\ ret.ok
       /\ ret.value =
            <<"(">>
              \o Join([i \in 1..Len(ClauseList(sig)) |-> C3_ExpectedParam(ClauseList(sig)[i])],
                      <<",", " ">>)
              \o <<")">>

(***************************************************************************)
(* C4                                                                      *)
(***************************************************************************)
TripleQuoteLine == <<" ", " ", " ", " ", "\"", "\"", "\"">>

EllipsisLine == <<" ", " ", " ", " ", ".", ".", ".">>

FourSpaces == <<" ", " ", " ", " ">>

HasDoc(o) == o.doc # None /\ o.doc # <<>>

MultiLine(doc) == \E i \in 1..Len(doc) : doc[i] = "\n"

\* lines[from + 1 .. from + n + 2] are an opening triple-quote line, the n
\* lines of doc, each verbatim or behind one level of indentation, and a
\* closing triple-quote line
IsDocBlock(lines, from, doc) ==
  /\ Len(lines) >= from + Len(Lines(doc)) + 2
  /\ lines[from + 1] = TripleQuoteLine
  /\ \A i \in 1..Len(Lines(doc)) :
       lines[from + 1 + i] \in {Lines(doc)[i], FourSpaces \o Lines(doc)[i]}
  /\ lines[from + Len(Lines(doc)) + 2] = TripleQuoteLine

IsInlineDoc(line, doc) == line = TripleQuoteLine \o doc \o <<"\"", "\"", "\"">>

\* the body of a function entry, the text after its `def` line
C4_Body(o, lines) ==
  IF HasDoc(o) /\ MultiLine(o.doc)
  THEN /\ IsDocBlock(lines, 1, o.doc)
       /\ Len(lines) = Len(Lines(o.doc)) + 4
  ELSE IF HasDoc(o)
  THEN /\ Len(lines) = 3
       /\ IsInlineDoc(lines[2], o.doc)
  ELSE /\ Len(lines) = 3
       /\ lines[2] = EllipsisLine

\* C4: gen_function_entry returns `def <name><parsed-signature>:` and then
\* exactly one body, chosen by the documentation: a triple-quoted indented
\* block holding the text when it has a line break, an inline triple-quoted
\* string on one indented line when it is a single line, the placeholder
\* `...` when it is None or empty.  Every callable that has a text signature
\* gets its entry.
C4_BodyByDocumentation ==
  Done("gen_function_entry")
    => /\ ret.ok <=> IsStr(obj.text_signature)
       /\ ret.ok =>
            /\ Lines(ret.value)[1]
                 = <<"d", "e", "f", " ">> \o obj.name
                     \o parse_signature(obj.text_signature, obj.doc).value \o <<":">>
            /\ C4_Body(obj, Lines(ret.value))
            /\ Lines(ret.value)[Len(Lines(ret.value))] = <<>>

C4_Witness ==
  /\ Done("gen_function_entry")
  /\ obj.doc = <<"x", "\n", "\n", " ", " ", "y", "\n">>
  /\ ret.ok
  /\ Lines(ret.value)[2] = TripleQuoteLine
  /\ Lines(ret.value)[5] = <<" ", " ", " ", " ", " ", " ", "y">>

(***************************************************************************)
(* C5, C9, C10                                                             *)
(***************************************************************************)
NativeMethodTypes == {"method_descriptor", "builtin_function_or_method"}

IsDunder(name) == Len(name) >= 2 /\ name[1] = "_" /\ name[2] = "_"

\* a member the class entry is to list
Eligible(m) ==
  /\ m.type \in NativeMethodTypes
  /\ IsStr(m.text_signature)
  /\ ~IsDunder(m.name)

\* the lines of text that open a method entry for name, one level deep
MethodLines(text, name) ==
  { i \in 1..Len(Lines(text)) :
      StartsWith(Lines(text)[i], FourSpaces \o <<"d", "e", "f", " ">> \o name \o <<"(">>) }

\* the lines of text that open an entry of whatever depth
DefLines(text) ==
  { i \in 1..Len(Lines(text)) :
      StartsWith(LStrip(Lines(text)[i], {" "}), <<"d", "e", "f", " ">>) }

Survivors(cls) == {i \in 1..Len(cls.members) : Eligible(cls.members[i])}

\* C5: the class entry gen_class_entry returns has no method entry for a
\* member whose name starts with a double underscore, native callable with a
\* parsable signature or not, and has exactly one entry, one level under the
\* class, for every other member of a recognized native-callable type with a
\* parsable signature; there is no further entry.
C5_NoDunderEveryEligibleOnce ==
  (Done("gen_class_entry") /\ ret.ok)
    => /\ \A i \in 1..Len(obj.members) :
            Cardinality(MethodLines(ret.value, obj.members[i].name))
              = IF Eligible(obj.members[i]) THEN 1 ELSE 0
       /\ Cardinality(DefLines(ret.value)) = Cardinality(Survivors(obj))

C5_Witness ==
  /\ Done("gen_class_entry")
  /\ ret.ok
  /\ \E i, j \in 1..Len(obj.members) :
       /\ obj.members[i].name = <<"_", "_", "r", "e", "d", "u", "c", "e", "_", "_">>
       /\ obj.members[i].type = "method_descriptor"
       /\ IsStr(obj.members[i].text_signature)
       /\ MethodLines(ret.value, obj.members[i].name) = {}
       /\ obj.members[j].name = <<"g", "e", "t">>
       /\ MethodLines(ret.value, obj.members[j].name) # {}

\* C9: gen_class_entry filters out, without failing, every member that does
\* not expose a parsable signature: a non-dunder member of a recognized
\* native-callable type whose text signature is absent gets no method entry
\* and does not abort the class entry, and the eligible members are emitted.
C9_AbsentSignatureFiltered ==
  Done("gen_class_entry")
    => /\ ret.ok
       /\ \A i \in 1..Len(obj.members) :
            Cardinality(MethodLines(ret.value, obj.members[i].name))
              = IF Eligible(obj.members[i]) THEN 1 ELSE 0

\* C10: after the `class <name>:` line comes, with documentation, its
\* triple-quoted form (a block when it has a line break, inline otherwise)
\* and then the method block; without documentation and without surviving
\* methods, the placeholder `...`; without documentation but with surviving
\* methods, an empty line and then directly the method block.  The
\* placeholder is the class body exactly when the class has neither
\* documentation nor surviving methods.
C10_ClassBody ==
  (Done("gen_class_entry") /\ ret.ok)
    => LET lines == Lines(ret.value)
           after == IF ~HasDoc(obj) THEN 2
                    ELSE IF MultiLine(obj.doc) THEN Len(Lines(obj.doc)) + 3
                    ELSE 2
       IN  /\ lines[1] = <<"c", "l", "a", "s", "s", " ">> \o obj.name \o <<":">>
           /\ (HasDoc(obj) /\ MultiLine(obj.doc)) => IsDocBlock(lines, 1, obj.doc)
           /\ (HasDoc(obj) /\ ~MultiLine(obj.doc)) => IsInlineDoc(lines[2], obj.doc)
           /\ (~HasDoc(obj) /\ Survivors(obj) = {}) => lines[2] = EllipsisLine
           /\ (~HasDoc(obj) /\ Survivors(obj) # {}) => lines[2] = <<>>
           /\ Survivors(obj) # {}
                => /\ after + 1 \in DefLines(ret.value)
                   /\ \A i \in DefLines(ret.value) : i > after
           /\ lines[2] = EllipsisLine <=> (~HasDoc(obj) /\ Survivors(obj) = {})
           /\ (~HasDoc(obj) /\ Survivors(obj) # {})
                => \A i \in 1..Len(lines) : lines[i] # EllipsisLine

C10_Witness ==
  /\ Done("gen_class_entry")
  /\ ret.ok
  /\ ~HasDoc(obj)
  /\ Survivors(obj) # {}
  /\ Lines(ret.value)[2] = <<>>
  /\ 3 \in DefLines(ret.value)

(***************************************************************************)
(* C6, C7, C8                                                              *)
(***************************************************************************)
HeaderLine ==
  <<"#", " ", "f", "l", "a", "k", "e", "8", ":", " ", "n", "o", "q", "a", ":",
    " ", "P", "Y", "I", "0", "2", "1">>

\* the module that exposes only add, `(a, b=0)`, "Add two numbers."
AddModule ==
  << [type |-> "builtin_function_or_method",
      name |-> <<"a", "d", "d">>,
      text_signature |-> <<"(", "a", ",", " ", "b", "=", "0", ")">>,
      doc |-> <<"A", "d", "d", " ", "t", "w", "o", " ", "n", "u", "m", "b", "e", "r", "s", ".">>,
      members |-> <<>>] >>

\* the entry generated for add
AddEntry ==
  <<"d", "e", "f", " ", "a", "d", "d", "(", "a", ",", " ", "b", " ", "=", " ", "0", ")", ":", "\n",
    " ", " ", " ", " ", "\"", "\"", "\"", "A", "d", "d", " ", "t", "w", "o", " ",
    "n", "u", "m", "b", "e", "r", "s", ".", "\"", "\"", "\"", "\n">>

RECURSIVE StartOf(_, _)
\* where the k-th of the entries starts in the text that joins them, each
\* followed by one line break
StartOf(entries, k) ==
  IF k = 1 THEN 1 ELSE StartOf(entries, k - 1) + Len(entries[k - 1]) + 1

\* the k-th entry stands in text at its place
StandsAt(text, entries, k) ==
  SubSeq(text, StartOf(entries, k), StartOf(entries, k) + Len(entries[k]) - 1) = entries[k]

\* the line above the k-th entry is blank
BlankLineBefore(text, entries, k) ==
  /\ text[StartOf(entries, k) - 1] = "\n"
  /\ text[StartOf(entries, k) - 2] = "\n"

\* C6 as stated: the text genpyi returns begins with the header line
\* `# flake8: noqa: PYI021` as its first entry and every entry, the header
\* included, is separated from the next by a blank line; for the module that
\* exposes only add the text is the header line, a blank line, the add entry.
C6_BlankLineAfterEveryEntry ==
  (Done("genpyi") /\ ret.ok)
    => /\ contents[1] = HeaderLine
       /\ \A k \in 1..Len(contents) : StandsAt(ret.value, contents, k)
       /\ \A k \in 2..Len(contents) : BlankLineBefore(ret.value, contents, k)
       /\ module = AddModule => ret.value = HeaderLine \o <<"\n", "\n">> \o AddEntry

\* C6 as amended: the text genpyi returns begins with the header line as its
\* first entry and the entries are joined by single line breaks: the first
\* generated entry starts on the line right under the header, no blank line
\* between them, and every later entry has a blank line above it, because
\* every generated entry ends with a line break; for the module that exposes
\* only add the text is the header line and, on the next line, the add entry.
C6_HeaderThenEntries ==
  (Done("genpyi") /\ ret.ok)
    => /\ contents[1] = HeaderLine
       /\ Lines(ret.value)[1] = HeaderLine
       /\ \A k \in 1..Len(contents) : StandsAt(ret.value, contents, k)
       /\ Len(contents) >= 2
            => /\ Lines(ret.value)[2] = Lines(contents[2])[1]
               /\ Lines(ret.value)[2] # <<>>
       /\ \A k \in 3..Len(contents) : BlankLineBefore(ret.value, contents, k)
       /\ Len(ret.value) = StartOf(contents, Len(contents)) + Len(contents[Len(contents)]) - 1
       /\ module = AddModule => ret.value = HeaderLine \o <<"\n">> \o AddEntry

C6_Witness ==
  /\ Done("genpyi")
  /\ module = AddModule
  /\ ret.value = HeaderLine \o <<"\n">> \o AddEntry

\* a <= b in the code-point order of str
LexLeq(a, b) ==
  \/ /\ Len(a) <= Len(b)
     /\ \A i \in 1..Len(a) : a[i] = b[i]
  \/ \E k \in 1..Len(a) :
       /\ k <= Len(b)
       /\ \A i \in 1..(k - 1) : a[i] = b[i]
       /\ Ord(a[k]) < Ord(b[k])

Occurrences(s, x) == Cardinality({i \in 1..Len(s) : s[i] = x})

\* C7: in the text genpyi returns, the generated entries under the header
\* are in non-decreasing lexicographic order of their whole text, whatever
\* the order the attributes were enumerated in, and they are the generated
\* entries, none dropped and none twice.
C7_EntriesSortedByText ==
  (Done("genpyi") /\ ret.ok)
    => /\ Len(contents) = Len(definitions) + 1
       /\ \A i, j \in 2..Len(contents) : i < j => LexLeq(contents[i], contents[j])
       /\ \A i \in 1..Len(definitions) :
            Occurrences(Tail(contents), definitions[i])
              = Occurrences(definitions, definitions[i])
       /\ \A k \in 1..Len(contents) : StandsAt(ret.value, contents, k)

\* enumerated as b, c: the class c is put before the function b
C7_Witness ==
  /\ Done("genpyi")
  /\ ret.ok
  /\ Len(module) = 2
  /\ module[1].name = <<"b">>
  /\ module[2].name = <<"c">>
  /\ StartsWith(contents[2], <<"c", "l", "a", "s", "s", " ", "c">>)
  /\ StartsWith(contents[3], <<"d", "e", "f", " ", "b">>)

\* the attributes of a supported type, in the order enumerated
SupportedAttrs(m) == {i \in 1..Len(m) : m[i].type \in NativeOrClass}

\* text is the entry of o: `def <name>(` or `class <name>:` opens it
IsEntryOf(text, o) ==
  IF o.type = "type"
  THEN StartsWith(text, <<"c", "l", "a", "s", "s", " ">> \o o.name \o <<":">>)
  ELSE StartsWith(text, <<"d", "e", "f", " ">> \o o.name \o <<"(">>)

\* C8: genpyi skips every attribute of an unsupported type: whatever the
\* mix of attributes it never fails with genentry's unsupported-type error,
\* and the text it returns has exactly one entry for every attribute of a
\* supported type and none for another.
C8_UnsupportedSkipped ==
  Done("genpyi")
    => /\ ret.exc # "ValueError"
       /\ ret.ok =>
            /\ Len(definitions) = Cardinality(SupportedAttrs(module))
            /\ \A i \in 1..Len(module) :
                 Cardinality({k \in 1..Len(definitions) : IsEntryOf(definitions[k], module[i])})
                   = IF i \in SupportedAttrs(module) THEN 1 ELSE 0

C8_Witness ==
  /\ Done("genpyi")
  /\ ret.ok
  /\ Len(module) = 2
  /\ module[1].type = "int"
  /\ module[2].type = "builtin_function_or_method"
  /\ Len(definitions) = 1
  /\ IsEntryOf(definitions[1], module[2])

=============================================================================
